---- MODULE Spec2Model ----
(***************************************************************************)
(* Model of src/main.py: the candle analysis engine analyze_data and the   *)
(* per-timeframe loop of analyze_token.                                    *)
(*                                                                         *)
(* Floats are modelled as integers (price / volume ticks); a division      *)
(* rounds down to the tick where the float rounds to the nearest ulp.      *)
(* The IEEE special values are reserved integers outside the tick range:   *)
(* PInf and NInf order above and below every finite tick, NaN compares     *)
(* false with everything.  Python's None is Null.                          *)
(***************************************************************************)
EXTENDS Integers, Sequences, FiniteSets, TLC

VARIABLES
    candle_none,       \* analyze_data argument candle_data is None
    candle_data,       \* analyze_data argument candle_data (list of rows)
    timeframe,         \* analyze_data argument timeframe
    fault,             \* which library call raises during this call
    result,            \* value returned by the last analyze_data call
    pc,                \* "call" | "returned" | "loop" | "done"
    tf_i,              \* analyze_token: index of the next timeframe
    analysis_results   \* analyze_token: dict timeframe -> analysis

vars == <<candle_none, candle_data, timeframe, fault, result, pc, tf_i,
          analysis_results>>

-----------------------------------------------------------------------------
(* Values *)

PInf == 1000000
NInf == -1000000
NaN == 9999999
Unparsable == 8888888
Null == 7777777

IsInf(x) == x = PInf \/ x = NInf
IsFinite(x) == x > NInf /\ x < PInf

\* Python float comparison: false as soon as one side is NaN
FGt(a, b) == a # NaN /\ b # NaN /\ a > b
FLe(a, b) == a # NaN /\ b # NaN /\ a <= b

\* `x if not pd.isna(x) else None`
NoneIfNaN(x) == IF x = NaN THEN Null ELSE x

-----------------------------------------------------------------------------
(* Program constants *)

MIN_ROWS == 50
MIN_COLS == 7
MIN_VALID == 20
LONG_MIN_ROWS == 200
OHLC_TAIL == 100
VOL_WINDOW == 20
KLINE_LIMIT == 250

Timeframes == <<"1W", "1D", "4h", "1h", "30min", "15min", "5min">>
LongTimeframes == {"1D", "1W"}

\* column positions given by the rename of line 129
C_TIMESTAMP == 1
C_OPEN == 2
C_HIGH == 3
C_LOW == 4
C_CLOSE == 5
C_BASEVOL == 6
C_USDTVOL == 7

ERR_INSUFFICIENT == "Khong du du lieu de phan tich."
ERR_FORMAT == "Du lieu khong dung format"
ERR_FRAME == "Loi tao DataFrame"
ERR_INVALID == "Qua nhieu du lieu khong hop le sau khi xu ly"
ERR_EMA == "Loi tinh toan EMA"
ERR_ANALYZE == "Loi phan tich tren khung"
ERR_TIMEFRAME_503 == "Loi xu ly khung thoi gian: 503: Loi khi goi API Bitget"
ERR_TIMEFRAME_404 == "Loi xu ly khung thoi gian: 404: Loi du lieu tu Bitget"
GTI_EMA_ERROR == "Khong du du lieu de tinh EMA"
GTI_NOTE == "Trend condition: EMA10 > EMA20 (uptrend) + price above both EMAs"

-----------------------------------------------------------------------------
(* DataFrame construction and the Series Normalizer (lines 124-157) *)

Max(S) == CHOOSE m \in S : \A k \in S : k <= m

\* df.shape[1]: pd.DataFrame pads short rows up to the longest row
Width(cd) == Max({Len(cd[i]) : i \in 1..Len(cd)})

\* one cell of the frame; a padded cell is missing
Cell(row, c) == IF c <= Len(row) THEN row[c] ELSE NaN

\* pd.to_numeric(errors='coerce') on one cell: numbers (and "inf") parse,
\* anything else becomes NaN
ToNumeric(x) == IF x = Unparsable THEN NaN ELSE x

NumericColumns == {C_OPEN, C_HIGH, C_LOW, C_CLOSE, C_BASEVOL, C_USDTVOL}

\* The loops over the rows are written as recursions that halve the row
\* range lo..hi; they visit the rows in order, as the loops do.
Mid(lo, hi) == (lo + hi) \div 2

RECURSIVE ColumnRange(_, _, _, _)
ColumnRange(cd, c, lo, hi) ==
    IF lo > hi THEN <<>>
    ELSE IF lo = hi
    THEN LET x == Cell(cd[lo], c)
         IN  <<IF c \in NumericColumns THEN ToNumeric(x) ELSE x>>
    ELSE ColumnRange(cd, c, lo, Mid(lo, hi))
             \o ColumnRange(cd, c, Mid(lo, hi) + 1, hi)

\* df[col] after the to_numeric loop of lines 140-145 (only the numeric
\* columns are coerced)
Coerced(cd, c) == ColumnRange(cd, c, 1, Len(cd))

RECURSIVE FFillRange(_, _, _, _)
FFillRange(col, lo, hi, last) ==
    IF lo > hi THEN <<>>
    ELSE IF lo = hi THEN <<IF col[lo] = NaN THEN last ELSE col[lo]>>
    ELSE LET left == FFillRange(col, lo, Mid(lo, hi), last)
         IN  left \o FFillRange(col, Mid(lo, hi) + 1, hi, left[Len(left)])

\* Series.ffill(): each missing value takes the last earlier valid value
FFill(col) == FFillRange(col, 1, Len(col), NaN)

HasNull(col) == \E i \in 1..Len(col) : col[i] = NaN

RECURSIVE CoercedFrame(_, _, _)
CoercedFrame(cd, c, acc) ==
    IF c > Width(cd) THEN acc
    ELSE CoercedFrame(cd, c + 1, Append(acc, Coerced(cd, c)))

RECURSIVE FilledFrame(_, _, _)
FilledFrame(fr, c, acc) ==
    IF c > Len(fr) THEN acc
    ELSE FilledFrame(fr, c + 1,
             Append(acc, IF c \in NumericColumns THEN FFill(fr[c]) ELSE fr[c]))

\* lines 139-150: the frame as a sequence of columns; the numeric columns
\* are coerced and, when any of them holds a NaN, forward-filled
Normalize(cd) ==
    LET fr == CoercedFrame(cd, 1, <<>>)
    IN  IF \E c \in NumericColumns : HasNull(fr[c])
        THEN FilledFrame(fr, 1, <<>>)
        ELSE fr

\* len(df.dropna()): rows with no NaN / None in any column of the frame
ValidCandles(df) ==
    Cardinality({i \in 1..Len(df[C_CLOSE]) :
                    \A c \in DOMAIN df : df[c][i] # NaN})

-----------------------------------------------------------------------------
(* Indicator Calculator (lines 160-194) *)

\* one step of pandas' ewm(span=window, adjust=False) mean: the running
\* value is kept when it equals the observation, restarts from the
\* observation when it is NaN, and is otherwise
\* (1 - alpha) * weighted + alpha * cur with alpha = 2 / (window + 1);
\* inf + (-inf) is NaN.  A missing observation leaves the running value as
\* it is (after the forward fill of line 150 the close column is missing
\* only before its first value, where the running value is still NaN).
EwmStep(weighted, cur, window) ==
    IF cur = NaN THEN weighted
    ELSE IF weighted = NaN THEN cur
    ELSE IF weighted = cur THEN weighted
    ELSE IF IsInf(weighted) /\ IsInf(cur) THEN NaN
    ELSE IF IsInf(weighted) THEN weighted
    ELSE IF IsInf(cur) THEN cur
    ELSE ((window - 1) * weighted + 2 * cur) \div (window + 1)

\* the running value and the number of observations after rows lo..hi,
\* from the pair st before them
RECURSIVE EwmRange(_, _, _, _, _)
EwmRange(close, window, lo, hi, st) ==
    IF lo > hi THEN st
    ELSE IF lo = hi
    THEN <<EwmStep(st[1], close[lo], window),
           IF close[lo] = NaN THEN st[2] ELSE st[2] + 1>>
    ELSE LET left == EwmRange(close, window, lo, Mid(lo, hi), st)
         IN  IF left[2] >= 0   \* always true: the left half is computed first
             THEN EwmRange(close, window, Mid(lo, hi) + 1, hi, left)
             ELSE left

\* ta.trend.EMAIndicator(close, window).ema_indicator().iloc[-1]:
\* ewm(span=window, min_periods=window, adjust=False).mean(), last value;
\* NaN until `window` observations have been seen
EMAIndicator(close, window) ==
    LET st == EwmRange(close, window, 1, Len(close), <<NaN, 0>>)
    IN  IF st[2] >= window THEN st[1] ELSE NaN

EMA(close, window) == NoneIfNaN(EMAIndicator(close, window))

\* the long EMAs computed on every timeframe
LongEMAAnyTimeframe(close, tf, window) ==
    IF Len(close) >= LONG_MIN_ROWS THEN EMA(close, window) ELSE Null

\* lines 170-175: the long EMAs, only for the day and week frames and
\* only on 200 rows or more
LongEMA(close, tf, window) ==
    IF tf \in LongTimeframes /\ Len(close) >= LONG_MIN_ROWS
    THEN EMA(close, window)
    ELSE Null

\* sum of the non-missing values of rows lo..hi
RECURSIVE SumRange(_, _, _)
SumRange(col, lo, hi) ==
    IF lo > hi THEN 0
    ELSE IF lo = hi THEN (IF col[lo] = NaN THEN 0 ELSE col[lo])
    ELSE SumRange(col, lo, Mid(lo, hi)) + SumRange(col, Mid(lo, hi) + 1, hi)

\* Series.mean(): the mean of the non-missing values
Mean(col) ==
    LET cnt == Cardinality({i \in 1..Len(col) : col[i] # NaN})
    IN  IF cnt = 0 THEN NaN ELSE SumRange(col, 1, Len(col)) \div cnt

\* Series.rolling(window).mean().iloc[-1]: NaN unless the last `window`
\* rows are all present
RollingMeanLast(col, window) ==
    LET n == Len(col)
    IN  IF n < window \/ \E i \in (n - window + 1)..n : col[i] = NaN
        THEN NaN
        ELSE SumRange(col, n - window + 1, n) \div window

\* lines 183-185
VolumeAvg20(volume) ==
    LET rolling == RollingMeanLast(volume, VOL_WINDOW)
    IN  IF rolling = NaN \/ rolling <= 0 THEN Mean(volume) ELSE rolling

Last(col) == col[Len(col)]

-----------------------------------------------------------------------------
(* Criteria Evaluator (lines 197-225) *)

\* the trend entries with non-strict comparisons
TrendChecksNonStrict(latest_price, ema10_val, ema20_val) ==
    IF ema10_val # Null /\ ema20_val # Null
    THEN [trend_condition_met |->
              FLe(ema20_val, ema10_val)
              /\ (FLe(ema10_val, latest_price) /\ FLe(ema20_val, latest_price)),
          price_above_ema10 |-> FLe(ema10_val, latest_price),
          price_above_ema20 |-> FLe(ema20_val, latest_price),
          ema10_above_ema20 |-> FLe(ema20_val, ema10_val)]
    ELSE [trend_condition_met |-> FALSE, error |-> GTI_EMA_ERROR]

\* lines 200-213: the trend entries of gti_results
TrendChecks(latest_price, ema10_val, ema20_val) ==
    IF ema10_val # Null /\ ema20_val # Null
    THEN [trend_condition_met |->
              FGt(ema10_val, ema20_val)
              /\ (FGt(latest_price, ema10_val) /\ FGt(latest_price, ema20_val)),
          price_above_ema10 |-> FGt(latest_price, ema10_val),
          price_above_ema20 |-> FGt(latest_price, ema20_val),
          ema10_above_ema20 |-> FGt(ema10_val, ema20_val)]
    ELSE [trend_condition_met |-> FALSE, error |-> GTI_EMA_ERROR]

\* k * x for a positive factor k
FTimes(k, x) == IF x = NaN \/ IsInf(x) THEN x ELSE k * x

\* the breakout test without the guard on the average
VolumeBreakoutUnguarded(latest_volume, volume_avg_20) ==
    FGt(FTimes(2, latest_volume), FTimes(3, volume_avg_20))

\* line 216: latest_volume > 1.5 * volume_avg_20, guarded by
\* volume_avg_20 > 0 (both sides doubled to stay in whole ticks)
VolumeBreakout(latest_volume, volume_avg_20) ==
    IF FGt(volume_avg_20, 0)
    THEN FGt(FTimes(2, latest_volume), FTimes(3, volume_avg_20))
    ELSE FALSE

\* the pullback test with a strict comparison of the low
PullbackStrictLow(latest_low, latest_price, ema_val) ==
    IF ema_val # Null
    THEN FGt(ema_val, latest_low) /\ FGt(latest_price, ema_val)
    ELSE FALSE

\* lines 219-225
Pullback(latest_low, latest_price, ema_val) ==
    IF ema_val # Null
    THEN FLe(latest_low, ema_val) /\ FGt(latest_price, ema_val)
    ELSE FALSE

-----------------------------------------------------------------------------
(* OHLC echo and result assembly (lines 228-268) *)

\* int(float(x)) raises on a non-numeric string, on None / NaN and on inf
IntRaises(x) == x = Unparsable \/ x = NaN \/ IsInf(x)

OhlcRow(df, i) ==
    [timestamp |-> df[C_TIMESTAMP][i],
     open |-> df[C_OPEN][i],
     high |-> df[C_HIGH][i],
     low |-> df[C_LOW][i],
     close |-> df[C_CLOSE][i],
     volume |-> df[C_USDTVOL][i]]

RECURSIVE OhlcRange(_, _, _)
OhlcRange(df, lo, hi) ==
    IF lo > hi THEN <<>>
    ELSE IF lo = hi THEN <<OhlcRow(df, lo)>>
    ELSE OhlcRange(df, lo, Mid(lo, hi)) \o OhlcRange(df, Mid(lo, hi) + 1, hi)

\* lines 228-242: the last min(100, len(df)) rows; a timestamp that does not
\* convert makes the loop raise and leaves ohlc_data empty
OhlcData(df) ==
    LET n == Len(df[C_CLOSE])
        first == IF n > OHLC_TAIL THEN n - OHLC_TAIL + 1 ELSE 1
    IN  IF \E i \in first..n : IntRaises(df[C_TIMESTAMP][i])
        THEN <<>>
        ELSE OhlcRange(df, first, n)

\* an error-result that also carries a data-quality block
ErrorResultPartial(msg) ==
    [error |-> msg,
     data_quality |-> [total_candles |-> 0, valid_candles |-> 0, timeframe |-> ""]]

\* lines 118, 132, 136, 157, 179, 272: {"error": message}
ErrorResult(msg) == [error |-> msg]

\* lines 181-268: everything after the EMA block
Assemble(df, tf, ema10_val, ema20_val, ema50_val, ema200_val) ==
    LET volume == df[C_USDTVOL]
        volume_avg_20 == VolumeAvg20(volume)
        latest_price == Last(df[C_CLOSE])
        latest_volume == Last(volume)
        latest_low == Last(df[C_LOW])
    IN  [indicators |->
             [latest_price |-> latest_price,
              latest_volume |-> latest_volume,
              volume_avg_20 |-> volume_avg_20,
              ema10 |-> ema10_val,
              ema20 |-> ema20_val,
              ema50 |-> ema50_val,
              ema200 |-> ema200_val],
         gti_criteria_checks |->
             TrendChecks(latest_price, ema10_val, ema20_val) @@
             [volume_breakout_on_latest_candle |->
                  VolumeBreakout(latest_volume, volume_avg_20),
              pullback_to_ema10 |-> Pullback(latest_low, latest_price, ema10_val),
              pullback_to_ema20 |-> Pullback(latest_low, latest_price, ema20_val),
              note |-> GTI_NOTE],
         ohlc_data |-> OhlcData(df),
         data_quality |->
             [total_candles |-> Len(df[C_CLOSE]),
              valid_candles |-> ValidCandles(df),
              timeframe |-> tf]]

\* the length check off by one
TooFewRowsOffByOne(none, cd) == none \/ Len(cd) = 0 \/ Len(cd) < MIN_ROWS - 1

\* line 116: `not candle_data or len(candle_data) < 50`
TooFewRows(none, cd) == none \/ Len(cd) = 0 \/ Len(cd) < MIN_ROWS

\* the valid-rows check off by one
TooManyInvalidOffByOne(df) == ValidCandles(df) < MIN_VALID - 1

\* line 156: `len(df.dropna()) < 20`
TooManyInvalid(df) == ValidCandles(df) < MIN_VALID

Faults == {"none", "frame", "normalize", "ema"}

\* analyze_data(candle_data, timeframe).  flt names the library call that
\* raises during the call: "frame" pd.DataFrame (line 125, caught at 134),
\* "normalize" a call of lines 139-157 (caught at 270), "ema" the EMA
\* block (lines 162-175, caught at 177), "none" no call raises.
AnalyzeData(none, cd, tf, flt) ==
    IF TooFewRows(none, cd) THEN ErrorResult(ERR_INSUFFICIENT)
    ELSE IF flt = "frame" THEN ErrorResult(ERR_FRAME)
    ELSE IF Width(cd) < MIN_COLS THEN ErrorResult(ERR_FORMAT)
    ELSE IF flt = "normalize" THEN ErrorResult(ERR_ANALYZE)
    ELSE LET df == Normalize(cd)
         IN  IF TooManyInvalid(df) THEN ErrorResult(ERR_INVALID)
             ELSE IF flt = "ema" THEN ErrorResult(ERR_EMA)
             ELSE Assemble(df, tf,
                           EMA(df[C_CLOSE], 10), EMA(df[C_CLOSE], 20),
                           LongEMA(df[C_CLOSE], tf, 50),
                           LongEMA(df[C_CLOSE], tf, 200))

-----------------------------------------------------------------------------
(* Candle batches handed to analyze_data *)

MaxExtraCols == 1   \* columns beyond the seven named ones
Slack == 1          \* row counts tried on each side of a threshold

CloseVals == {50, 90, 100, 121, PInf, NInf, Unparsable}
LowVals == {95, 102, 103, 104}
VolEarlyVals == {-20, 0, 300}
VolRecentVals == {-20, 0, 100}
VolLastVals == {-20, 0, 150, 154, 300}
BadKinds == {"close", "numeric", "timestamp"}

RowCounts ==
    {0} \cup ((MIN_ROWS - Slack)..(MIN_ROWS + Slack))
        \cup ((LONG_MIN_ROWS - Slack)..(LONG_MIN_ROWS + Slack))
        \cup {KLINE_LIMIT}

\* head rows made bad: none, a few, and the counts that leave just under /
\* just enough rows for EMA200, EMA50 and the 20-valid-rows check
HeadBadCounts(n) ==
    {h \in (0..Slack) \cup {n - LONG_MIN_ROWS + 1, n - 50 + 1,
                            n - MIN_VALID, n - MIN_VALID + 1} :
        h >= 0 /\ h <= n}

\* The i-th candle (in time order) of a batch of n candles with ncols
\* columns.  The first headBad candles carry bad cells of kind badKind:
\* "close" an unparsable close, "numeric" every numeric field unparsable,
\* "timestamp" a missing (None) timestamp.
Candle(p, i) ==
    LET bad == i <= p.headBad
        num(x) == IF bad /\ p.badKind = "numeric" THEN Unparsable ELSE x
        close == IF bad /\ p.badKind = "close" THEN Unparsable
                 ELSE IF i = p.n THEN p.lastClose
                 ELSE IF i = p.n - 1 THEN p.prevClose
                 ELSE 100
        low == IF i = p.n THEN p.lastLow ELSE 100
        vol == IF i = p.n THEN p.volLast
               ELSE IF i > p.n - VOL_WINDOW THEN p.volRecent
               ELSE p.volEarly
        full == <<IF bad /\ p.badKind = "timestamp" THEN NaN ELSE 1000 + i,
                  num(100), num(100), num(low), num(close),
                  num(10), num(vol)>>
    IN  IF p.ncols <= MIN_COLS
        THEN SubSeq(full, 1, p.ncols)
        ELSE full \o [k \in 1..(p.ncols - MIN_COLS) |-> 0]

\* the batch as delivered: oldest first, or newest first when p.desc
Batch(p) ==
    [j \in 1..p.n |-> Candle(p, IF p.desc THEN p.n + 1 - j ELSE j)]

Plain ==
    [n |-> MIN_ROWS, ncols |-> MIN_COLS, headBad |-> 0, badKind |-> "close",
     prevClose |-> 100, lastClose |-> 100, lastLow |-> 100,
     volEarly |-> 100, volRecent |-> 100, volLast |-> 100,
     desc |-> FALSE, tf |-> "1D", fault |-> "none", none |-> FALSE]

\* price shapes at the end of the series, oldest-first and newest-first
TrendInputs ==
    {[Plain EXCEPT !.prevClose = pcl, !.lastClose = lcl, !.lastLow = ll,
                   !.desc = d, !.tf = tf] :
        pcl \in CloseVals, lcl \in CloseVals, ll \in LowVals,
        d \in BOOLEAN, tf \in {"1D", "4h"}}

VolumeInputs ==
    {[Plain EXCEPT !.volEarly = ve, !.volRecent = vr, !.volLast = vl] :
        ve \in VolEarlyVals, vr \in VolRecentVals, vl \in VolLastVals}

LengthInputs ==
    UNION {{[Plain EXCEPT !.n = n, !.ncols = nc, !.headBad = h,
                          !.badKind = bk, !.tf = Timeframes[t]] :
               nc \in (MIN_COLS - 1)..(MIN_COLS + MaxExtraCols),
               h \in HeadBadCounts(n), bk \in BadKinds, t \in 1..Len(Timeframes)} :
           n \in RowCounts}

FaultInputs ==
    {[Plain EXCEPT !.n = n, !.ncols = nc, !.headBad = h, !.fault = f,
                   !.none = no] :
        n \in {0, MIN_ROWS - 1, MIN_ROWS}, nc \in {MIN_COLS - 1, MIN_COLS},
        h \in {0, MIN_ROWS - MIN_VALID + 1}, f \in Faults, no \in BOOLEAN}

Inputs == TrendInputs \cup VolumeInputs \cup LengthInputs \cup FaultInputs

-----------------------------------------------------------------------------
(* analyze_data called on its own *)

Init ==
    /\ \E p \in Inputs :
          /\ candle_none = p.none
          /\ candle_data = IF p.none THEN <<>> ELSE Batch(p)
          /\ timeframe = p.tf
          /\ fault = p.fault
    /\ result = ErrorResult("")
    /\ pc = "call"
    /\ tf_i = 0
    /\ analysis_results = <<>>

AnalyzeDataCall ==
    /\ pc = "call"
    /\ result' = AnalyzeData(candle_none, candle_data, timeframe, fault)
    /\ pc' = "returned"
    /\ UNCHANGED <<candle_none, candle_data, timeframe, fault, tf_i,
                   analysis_results>>

Next == AnalyzeDataCall

Spec == Init /\ [][Next]_vars

-----------------------------------------------------------------------------
(* analyze_token: one analysis per timeframe (lines 290-311) *)

\* what get_bitget_klines raises: HTTPException 503 for a transport error
\* (line 106), HTTPException 404 for a data error (line 109)
FetchExceptions == {"HTTPException503", "HTTPException404"}

\* a handler that catches the data errors only
CaughtOnlyDataErrors(exc) == exc # "HTTPException503"

\* line 303: `except Exception` catches HTTPException and every other
\* Exception raised inside the loop body
Caught(exc) == TRUE

\* line 305: the entry recorded for the timeframe whose iteration raised
TimeframeError(exc) ==
    ErrorResult(IF exc = "HTTPException503" THEN ERR_TIMEFRAME_503
                ELSE ERR_TIMEFRAME_404)

\* what get_bitget_klines can return: a non-empty list of rows (line 100
\* raises on an empty one)
Klines ==
    {Batch(Plain), Batch([Plain EXCEPT !.n = MIN_ROWS - 1])}

\* analysis_results[tf] = entry
Store(results, tf, entry) ==
    [k \in DOMAIN results \cup {tf} |-> IF k = tf THEN entry ELSE results[k]]

InitToken ==
    /\ candle_none = FALSE
    /\ candle_data = <<>>
    /\ timeframe = ""
    /\ fault = "none"
    /\ result = ErrorResult("")
    /\ pc = "loop"
    /\ tf_i = 1
    /\ analysis_results = <<>>

\* one loop iteration in which get_bitget_klines returns (lines 298-302)
IterationAnalyzed ==
    /\ pc = "loop" /\ tf_i <= Len(Timeframes)
    /\ \E kline_data \in Klines :
          LET tf == Timeframes[tf_i]
              analysis == AnalyzeData(FALSE, kline_data, tf, "none")
          IN  /\ candle_data' = kline_data
              /\ timeframe' = tf
              /\ result' = analysis
              /\ analysis_results' = Store(analysis_results, tf, analysis)
    /\ tf_i' = tf_i + 1
    /\ UNCHANGED <<candle_none, fault, pc>>

\* one loop iteration in which get_bitget_klines raises (lines 303-305);
\* an exception the inner handler did not catch would reach the outer
\* handler, which ends the request with HTTP 500 (lines 313-315)
IterationRaised ==
    /\ pc = "loop" /\ tf_i <= Len(Timeframes)
    /\ \E exc \in FetchExceptions :
          IF Caught(exc)
          THEN /\ analysis_results' =
                      Store(analysis_results, Timeframes[tf_i], TimeframeError(exc))
               /\ tf_i' = tf_i + 1
               /\ pc' = pc
          ELSE /\ pc' = "aborted"
               /\ UNCHANGED <<tf_i, analysis_results>>
    /\ UNCHANGED <<candle_none, candle_data, timeframe, fault, result>>

\* lines 307-311
Return ==
    /\ pc = "loop" /\ tf_i > Len(Timeframes)
    /\ pc' = "done"
    /\ UNCHANGED <<candle_none, candle_data, timeframe, fault, result, tf_i,
                   analysis_results>>

NextToken == IterationAnalyzed \/ IterationRaised \/ Return

SpecToken == InitToken /\ [][NextToken]_vars

-----------------------------------------------------------------------------
(* Properties *)

Returned == pc = "returned"

ErrorKeys == {"error"}
FullKeys == {"indicators", "gti_criteria_checks", "ohlc_data", "data_quality"}

IsErrorResult(r) == DOMAIN r = ErrorKeys
IsFullResult(r) == DOMAIN r = FullKeys

Rows == Len(candle_data)
IsNumber(x) == x # NaN /\ x # Unparsable

\* the raw cell of the last row delivered
LastCell(c) == Cell(candle_data[Rows], c)

\* the last parsable raw cell of column c at or before row i (NaN if none)
LastParsable(c, i) ==
    LET S == {j \in 1..i : IsNumber(Cell(candle_data[j], c))}
    IN  IF S = {} THEN NaN ELSE Cell(candle_data[Max(S)], c)

\* rows whose numeric fields are all populated after one forward fill of
\* the raw cells, and whose other cells are not missing
PopulatedRows ==
    {i \in 1..Rows :
        /\ \A c \in NumericColumns :
              \E j \in 1..i : IsNumber(Cell(candle_data[j], c))
        /\ \A c \in 1..Width(candle_data) :
              c \notin NumericColumns => Cell(candle_data[i], c) # NaN}

\* rows whose numeric (required) fields are all populated after the fill
RequiredPopulatedRows ==
    {i \in 1..Rows :
        \A c \in NumericColumns :
            \E j \in 1..i : IsNumber(Cell(candle_data[j], c))}

\* C1: a batch that is None, empty or shorter than 50 rows gives the
\* insufficient-data error-result and nothing else, whatever its column
\* count, its cells and the timeframe label.
ThmC1 ==
    (Returned /\ (candle_none \/ Rows < 50))
        => result = [error |-> ERR_INSUFFICIENT]

WitC1 ==
    /\ Returned /\ ~candle_none /\ Rows = 49
    /\ Width(candle_data) < 7
    /\ timeframe = "5min"
    /\ result = [error |-> ERR_INSUFFICIENT]

\* C2: with EMA10 and EMA20 both non-null the three comparison flags are
\* the strict comparisons of the reported values and trend_condition_met
\* is their conjunction.
ThmC2 ==
    (Returned /\ IsFullResult(result)
        /\ result.indicators.ema10 # Null /\ result.indicators.ema20 # Null)
    => LET ind == result.indicators
           g == result.gti_criteria_checks
       IN  /\ g.ema10_above_ema20 = FGt(ind.ema10, ind.ema20)
           /\ g.price_above_ema10 = FGt(ind.latest_price, ind.ema10)
           /\ g.price_above_ema20 = FGt(ind.latest_price, ind.ema20)
           /\ g.trend_condition_met =
                 (g.ema10_above_ema20 /\ g.price_above_ema10 /\ g.price_above_ema20)

WitC2 ==
    /\ Returned /\ IsFullResult(result)
    /\ result.indicators.ema10 # Null /\ result.indicators.ema20 # Null
    /\ result.indicators.latest_price = result.indicators.ema10
    /\ result.indicators.ema10 = result.indicators.ema20
    /\ ~result.gti_criteria_checks.trend_condition_met

\* C3: the volume breakout flag is true exactly when the reported
\* volume_avg_20 is positive and latest_volume exceeds 1.5 times it; a zero
\* or negative average gives false.
ThmC3 ==
    (Returned /\ IsFullResult(result))
    => LET ind == result.indicators
       IN  result.gti_criteria_checks.volume_breakout_on_latest_candle =
               (/\ FGt(ind.volume_avg_20, 0)
                /\ FGt(FTimes(2, ind.latest_volume), FTimes(3, ind.volume_avg_20)))

WitC3 ==
    /\ Returned /\ IsFullResult(result)
    /\ result.indicators.volume_avg_20 < 0
    /\ result.indicators.latest_volume > 0
    /\ ~result.gti_criteria_checks.volume_breakout_on_latest_candle

\* C4: for N in {10, 20} with emaN non-null, pullback_to_emaN is
\* (latest_low <= emaN) and (latest_price > emaN), latest_low being the low
\* of the last row.
ThmC4 ==
    (Returned /\ IsFullResult(result) /\ IsNumber(LastCell(C_LOW)))
    => LET ind == result.indicators
           g == result.gti_criteria_checks
           low == LastCell(C_LOW)
       IN  /\ ind.ema10 # Null =>
                 g.pullback_to_ema10 =
                     (FLe(low, ind.ema10) /\ FGt(ind.latest_price, ind.ema10))
           /\ ind.ema20 # Null =>
                 g.pullback_to_ema20 =
                     (FLe(low, ind.ema20) /\ FGt(ind.latest_price, ind.ema20))

WitC4 ==
    /\ Returned /\ IsFullResult(result)
    /\ result.indicators.ema10 # Null
    /\ LastCell(C_LOW) = result.indicators.ema10
    /\ result.indicators.latest_price > result.indicators.ema10
    /\ result.gti_criteria_checks.pullback_to_ema10
    /\ ~result.gti_criteria_checks.pullback_to_ema20

\* C5 as stated: ema50 and ema200 are both non-null exactly when the
\* timeframe is 1D or 1W and the series has at least 200 rows, otherwise
\* both are null, whatever the quality of the close column.
OrigC5 ==
    (Returned /\ IsFullResult(result))
    => LET ind == result.indicators
           long == timeframe \in {"1D", "1W"} /\ Rows >= 200
       IN  /\ (ind.ema50 # Null /\ ind.ema200 # Null) <=> long
           /\ ~long => (ind.ema50 = Null /\ ind.ema200 = Null)

\* rows that hold a close after the forward fill
CloseObservations ==
    Cardinality({i \in 1..Rows :
                    \E j \in 1..i : IsNumber(Cell(candle_data[j], C_CLOSE))})

AllClosesFinite ==
    \A i \in 1..Rows :
        LET x == Cell(candle_data[i], C_CLOSE) IN IsNumber(x) => IsFinite(x)

\* C5 amended: ema50 and ema200 are both null unless the timeframe is 1D
\* or 1W and the series has at least 200 rows; in that case, with finite
\* closes, emaN (N = 50, 200) is non-null exactly when at least N rows hold
\* a close after the forward fill.
ThmC5 ==
    (Returned /\ IsFullResult(result))
    => LET ind == result.indicators
           long == timeframe \in {"1D", "1W"} /\ Rows >= 200
       IN  /\ ~long => (ind.ema50 = Null /\ ind.ema200 = Null)
           /\ (long /\ AllClosesFinite) =>
                 /\ ind.ema50 # Null <=> CloseObservations >= 50
                 /\ ind.ema200 # Null <=> CloseObservations >= 200

WitC5 ==
    /\ Returned /\ IsFullResult(result)
    /\ timeframe = "1W" /\ Rows >= 200
    /\ CloseObservations < 200
    /\ result.indicators.ema50 # Null
    /\ result.indicators.ema200 = Null

\* C6 as stated: when EMA10 or EMA20 is null the criteria hold the four
\* trend flags, all false, and the pullback flag of each null EMA is false.
OrigC6 ==
    (Returned /\ IsFullResult(result)
        /\ (result.indicators.ema10 = Null \/ result.indicators.ema20 = Null))
    => LET ind == result.indicators
           g == result.gti_criteria_checks
       IN  /\ \A k \in {"trend_condition_met", "price_above_ema10",
                        "price_above_ema20", "ema10_above_ema20"} :
                  k \in DOMAIN g /\ g[k] = FALSE
           /\ ind.ema10 = Null => g.pullback_to_ema10 = FALSE
           /\ ind.ema20 = Null => g.pullback_to_ema20 = FALSE

\* C7: every call returns either an error-result holding only the error
\* field or a full result holding the four blocks and no error field.
ThmC7 ==
    Returned =>
        \/ IsErrorResult(result)
        \/ /\ IsFullResult(result)
           /\ DOMAIN result.data_quality =
                  {"total_candles", "valid_candles", "timeframe"}

WitC7 ==
    /\ Returned /\ fault = "ema"
    /\ Rows >= 50 /\ Width(candle_data) >= 7
    /\ result = [error |-> ERR_EMA]

\* the row with the greatest timestamp among rows lo..hi of the batch
RECURSIVE NewestIn(_, _)
NewestIn(lo, hi) ==
    IF lo >= hi THEN lo
    ELSE LET a == NewestIn(lo, Mid(lo, hi))
             b == NewestIn(Mid(lo, hi) + 1, hi)
         IN  IF candle_data[b][C_TIMESTAMP] > candle_data[a][C_TIMESTAMP]
             THEN b ELSE a

NewestRow == NewestIn(1, Rows)

\* C8 as stated: latest_price is the close of the candle with the greatest
\* timestamp, whatever the order the rows are delivered in.
OrigC8 ==
    (Returned /\ IsFullResult(result)
        /\ \A i \in 1..Rows : IsFinite(candle_data[i][C_TIMESTAMP])
        /\ IsNumber(candle_data[NewestRow][C_CLOSE]))
    => result.indicators.latest_price = candle_data[NewestRow][C_CLOSE]

\* C10: fewer than 20 rows with every required field populated after the
\* forward fill gives the too-many-invalid error-result; a full result
\* reports total_candles >= 50 and 20 <= valid_candles <= total_candles,
\* and its latest price is the last parsable close.
ThmC10 ==
    /\ (Returned /\ ~candle_none /\ Rows >= 50 /\ Width(candle_data) >= 7
           /\ fault = "none" /\ Cardinality(RequiredPopulatedRows) < 20)
       => result = [error |-> ERR_INVALID]
    /\ (Returned /\ IsFullResult(result))
       => LET q == result.data_quality
          IN  /\ q.total_candles = Rows /\ q.total_candles >= 50
              /\ q.valid_candles = Cardinality(PopulatedRows)
              /\ 20 <= q.valid_candles /\ q.valid_candles <= q.total_candles
              /\ result.indicators.latest_price = LastParsable(C_CLOSE, Rows)

WitC10 ==
    /\ Returned /\ Rows >= 50 /\ Width(candle_data) >= 7 /\ fault = "none"
    /\ Cardinality(RequiredPopulatedRows) = 19
    /\ result = [error |-> ERR_INVALID]

-----------------------------------------------------------------------------
(* analyze_token *)

InvC9 ==
    /\ pc \in {"loop", "done"}
    /\ DOMAIN analysis_results = {Timeframes[k] : k \in 1..(tf_i - 1)}
    /\ \A tf \in DOMAIN analysis_results :
          IsErrorResult(analysis_results[tf]) \/ IsFullResult(analysis_results[tf])
    /\ pc = "done" =>
          DOMAIN analysis_results =
              {"1W", "1D", "4h", "1h", "30min", "15min", "5min"}

StepC9 ==
    \/ /\ pc = "loop" /\ pc' = "loop" /\ tf_i' = tf_i + 1
       /\ DOMAIN analysis_results' =
              DOMAIN analysis_results \cup {Timeframes[tf_i]}
       /\ \A tf \in DOMAIN analysis_results :
              analysis_results'[tf] = analysis_results[tf]
       /\ timeframe' = timeframe =>
              analysis_results'[Timeframes[tf_i]] \in
                  {[error |-> ERR_TIMEFRAME_503], [error |-> ERR_TIMEFRAME_404]}
    \/ /\ pc = "loop" /\ pc' = "done" /\ tf_i = 8
       /\ analysis_results' = analysis_results

\* C9: the seven timeframes are handled in order, each iteration stores
\* exactly one entry for its own timeframe and leaves the earlier entries
\* alone, a raising fetch stores an error entry and the loop goes on, and
\* the request ends with one entry per timeframe.
ThmC9 == []InvC9 /\ [][StepC9]_vars

WitC9 ==
    /\ pc = "done"
    /\ analysis_results["1W"] = [error |-> ERR_TIMEFRAME_503]
    /\ analysis_results["1D"] = [error |-> ERR_TIMEFRAME_404]
    /\ IsFullResult(analysis_results["4h"])
    /\ analysis_results["1h"] = [error |-> ERR_INSUFFICIENT]
    /\ IsFullResult(analysis_results["5min"])

====
